---- MODULE Spec2Model ----
(***************************************************************************)
(* Binance interval analyzer: the paginated candle fetcher                 *)
(* (services/binanceService.ts), the orchestrator handleFetch (App) and    *)
(* the 15-minute interval analyzer (utils/analyzer.ts).                    *)
(*                                                                         *)
(* Times are epoch milliseconds.  Prices travel as decimal strings and are *)
(* parsed by parseFloat; the parsed value is held in units of 1/6000, and  *)
(* the analyzer's arithmetic is exact (IEEE rounding is not modelled).     *)
(***************************************************************************)
EXTENDS Integers, Sequences, FiniteSets, TLC

\* ----------------------------------------------------------------- types
BinanceKline ==
    [openTime : Int, open : STRING, high : STRING, low : STRING,
     close : STRING, volume : STRING, closeTime : Int]

Direction == {"UP", "DOWN", "FLAT"}

IntervalAnalysis ==
    [startTime : Int, endTime : Int, startPrice : Int, priceAt14m55s : Int,
     direction14m55s : Direction, priceAt15m : Int, direction15m : Direction,
     isMatch : BOOLEAN]

\* the record of utils/analyzer.ts, whose checkpoint is the 14m30s mark
IntervalAnalysis30s ==
    [startTime : Int, endTime : Int, startPrice : Int, priceAt15m : Int,
     direction15m : Direction, isMatch : BOOLEAN, priceAt14m30s : Int,
     direction14m30s : Direction]

AnalysisStats ==
    [symbol : STRING, totalIntervals : Nat, matchCount : Nat,
     mismatchCount : Nat, matchRate : [num : Nat, den : Nat],
     dataPoints : Seq(IntervalAnalysis \cup IntervalAnalysis30s)]

\* a call of handleFetch in flight: the pair and the lookback of the render
\* it was created in, and the instant it took as now
HandleFetchCall == [symbol : STRING, hoursLookback : Nat, calledAt : Int]

\* a request for one page, the response it gets, and the way the promise of
\* fetchHistoricalData settles
Request == [startTime : Int, limit : Nat]

Response ==
    [rejected : BOOLEAN, ok : BOOLEAN, status : STRING, statusText : STRING,
     isArray : BOOLEAN, items : Seq(Seq(Int \cup STRING)), json : STRING]

Settlement ==
    [kind : {"pending", "ok", "error"}, klines : Seq(BinanceKline),
     name : STRING, message : Seq(STRING)]

\* ---------------------------------------------------------------- bounds
\* the largest page the source serves, whatever limit the request carries
ServerMaxPage == 4
\* how many new candles the source may produce while a call is running
MaxTicks == 2
\* how many calls of handleFetch may be in flight together
MaxCalls == 2

\* ------------------------------------------------------------- constants
MAX_LOOPS == 20
LIMIT == 1000
MINUTE == 60 * 1000
HOUR == 60 * 60 * 1000
BUCKET == 15 * 60 * 1000

\* the instant of the first Date.now() the model considers
T0 == 25 * HOUR + 7 * MINUTE

PAIRS == <<"BTCUSDT", "ETHUSDT", "BNBUSDT", "SOLUSDT">>

\* the time ranges the model selects
ModelRanges == {"24h", "7d", "14d"}

\* ------------------------------------------------------- general helpers
Last(s) == s[Len(s)]

Min(a, b) == IF a < b THEN a ELSE b

Max(a, b) == IF a > b THEN a ELSE b

\* ------------------------------------------------------------ the source
\* The source holds one candle per minute, from the minute the pair was
\* listed up to the minute that is open at the source's clock (or up to the
\* minute at which trading of the pair stopped).
FloorMinute(t) == (t \div MINUTE) * MINUTE

CeilMinute(t) == ((t + MINUTE - 1) \div MINUTE) * MINUTE

\* the decimal strings the source quotes for the candle of minute m
OpenOf(m) ==
    LET k == (m \div MINUTE) % 15
    IN  IF k = 14 THEN (IF (m \div BUCKET) % 2 = 0 THEN "110" ELSE "99.50")
        ELSE IF k = 0 THEN (IF (m \div BUCKET) % 3 = 0 THEN "100.00" ELSE "100")
        ELSE "101"

CloseOf(m) ==
    LET k == (m \div MINUTE) % 15
    IN  IF k = 14 THEN (IF (m \div BUCKET) % 4 = 1 THEN "100" ELSE "120")
        ELSE "101"

\* wire format: [openTime, open, high, low, close, volume, closeTime]
WireCandle(m) == <<m, OpenOf(m), "120", "99.50", CloseOf(m), "1", m + MINUTE - 1>>

\* the newest candle the source holds at clock c
SrcLast(c, live, end) == IF live THEN FloorMinute(c) ELSE Min(end, FloorMinute(c))

\* the page served for a request: the candles with openTime >= start, oldest
\* first, at most min(limit, ServerMaxPage) of them
PageFor(start, limit, first, c, live, end) ==
    LET from == Max(first, CeilMinute(start))
        avail == IF SrcLast(c, live, end) < from THEN 0
                 ELSE (SrcLast(c, live, end) - from) \div MINUTE + 1
        n == Min(Min(limit, ServerMaxPage), avail)
    IN  [i \in 1..n |-> WireCandle(from + (i - 1) * MINUTE)]

\* ---------------------------------------------------------- the analyzer
\* parseFloat on the strings the source quotes; the value is held in units
\* of 1/6000 so that the interpolation below stays exact
parseFloat(s) ==
    CASE s = "100"    -> 600000
      [] s = "100.00" -> 600000
      [] s = "99.50"  -> 597000
      [] s = "101"    -> 606000
      [] s = "110"    -> 660000
      [] s = "120"    -> 720000

bucketStart(timestamp) == (timestamp \div BUCKET) * BUCKET

\* the comparison that never answers FLAT
getDirectionNoFlat(start, end) == IF end >= start THEN "UP" ELSE "DOWN"

getDirection(start, end) ==
    IF end > start THEN "UP"
    ELSE IF end < start THEN "DOWN"
    ELSE "FLAT"

\* every candle pushed to every bucket's list
bucketOfAll(klines, b) == klines

\* the bucket's list in the Map: the candles of the bucket in input order
bucketOf(klines, b) == SelectSeq(klines, LAMBDA k : bucketStart(k.openTime) = b)

\* Array.prototype.sort with (a, b) => a.openTime - b.openTime: stable
RECURSIVE insertByOpenTime(_, _)
insertByOpenTime(sorted, k) ==
    IF sorted = << >> THEN <<k>>
    ELSE IF Last(sorted).openTime <= k.openTime THEN Append(sorted, k)
    ELSE Append(insertByOpenTime(SubSeq(sorted, 1, Len(sorted) - 1), k), Last(sorted))

\* the bucket's list left in input order
sortByOpenTimeOmitted(candles) == candles

RECURSIVE sortByOpenTime(_)
sortByOpenTime(candles) ==
    IF candles = << >> THEN << >>
    ELSE insertByOpenTime(sortByOpenTime(SubSeq(candles, 1, Len(candles) - 1)), Last(candles))

\* Array.from(bucketMap.keys()).sort((a, b) => a - b)
RECURSIVE sortKeys(_)
sortKeys(keys) ==
    IF keys = {} THEN << >>
    ELSE LET m == CHOOSE x \in keys : \A y \in keys : x <= y
         IN  <<m>> \o sortKeys(keys \ {m})

\* the checkpoint carried on past the close by the move of the minute
priceAt14m55sOfOvershoot(open14, close14) == close14 + ((close14 - open14) * 55) \div 60

priceAt14m55sOf(open14, close14) == open14 + ((close14 - open14) * 55) \div 60

\* the record whose match needs a rise or a fall on both sides
analyzeBucketFlatMismatch(startTime, unsorted) ==
    LET candles == sortByOpenTime(unsorted)
        startCandle == candles[1]
        endCandle == candles[15]
        startPrice == parseFloat(startCandle.open)
        priceAt15m == parseFloat(endCandle.close)
        open14 == parseFloat(endCandle.open)
        close14 == parseFloat(endCandle.close)
        priceAt14m55s == priceAt14m55sOf(open14, close14)
        direction15m == getDirection(startPrice, priceAt15m)
        direction14m55s == getDirection(startPrice, priceAt14m55s)
    IN  [startTime |-> startTime,
         endTime |-> startTime + 15 * 60 * 1000,
         startPrice |-> startPrice,
         priceAt14m55s |-> priceAt14m55s,
         direction14m55s |-> direction14m55s,
         priceAt15m |-> priceAt15m,
         direction15m |-> direction15m,
         isMatch |-> (direction15m = direction14m55s /\ direction15m # "FLAT")]

\* the record whose end candle is the last candle of the bucket
analyzeBucketLastCandle(startTime, unsorted) ==
    LET candles == sortByOpenTime(unsorted)
        startCandle == candles[1]
        endCandle == Last(candles)
        startPrice == parseFloat(startCandle.open)
        priceAt15m == parseFloat(endCandle.close)
        open14 == parseFloat(endCandle.open)
        close14 == parseFloat(endCandle.close)
        priceAt14m55s == priceAt14m55sOf(open14, close14)
        direction15m == getDirection(startPrice, priceAt15m)
        direction14m55s == getDirection(startPrice, priceAt14m55s)
    IN  [startTime |-> startTime,
         endTime |-> startTime + 15 * 60 * 1000,
         startPrice |-> startPrice,
         priceAt14m55s |-> priceAt14m55s,
         direction14m55s |-> direction14m55s,
         priceAt15m |-> priceAt15m,
         direction15m |-> direction15m,
         isMatch |-> (direction15m = direction14m55s)]

\* the record pushed for one complete bucket
analyzeBucket(startTime, unsorted) ==
    LET candles == sortByOpenTime(unsorted)
        startCandle == candles[1]
        endCandle == candles[15]
        startPrice == parseFloat(startCandle.open)
        priceAt15m == parseFloat(endCandle.close)
        open14 == parseFloat(endCandle.open)
        close14 == parseFloat(endCandle.close)
        priceAt14m55s == priceAt14m55sOf(open14, close14)
        direction15m == getDirection(startPrice, priceAt15m)
        direction14m55s == getDirection(startPrice, priceAt14m55s)
    IN  [startTime |-> startTime,
         endTime |-> startTime + 15 * 60 * 1000,
         startPrice |-> startPrice,
         priceAt14m55s |-> priceAt14m55s,
         direction14m55s |-> direction14m55s,
         priceAt15m |-> priceAt15m,
         direction15m |-> direction15m,
         isMatch |-> (direction15m = direction14m55s)]

\* the loop skipping the buckets of exactly 15 candles as well
RECURSIVE analyzeBucketsAbove15(_, _)
analyzeBucketsAbove15(klines, sortedKeys) ==
    IF sortedKeys = << >> THEN << >>
    ELSE LET startTime == Last(sortedKeys)
             candles == bucketOf(klines, startTime)
             before == analyzeBucketsAbove15(klines, SubSeq(sortedKeys, 1, Len(sortedKeys) - 1))
         IN  IF Len(candles) <= 15 THEN before
             ELSE Append(before, analyzeBucket(startTime, candles))

\* the loop over sortedKeys: buckets with fewer than 15 candles are skipped
RECURSIVE analyzeBuckets(_, _)
analyzeBuckets(klines, sortedKeys) ==
    IF sortedKeys = << >> THEN << >>
    ELSE LET startTime == Last(sortedKeys)
             candles == bucketOf(klines, startTime)
             before == analyzeBuckets(klines, SubSeq(sortedKeys, 1, Len(sortedKeys) - 1))
         IN  IF Len(candles) < 15 THEN before
             ELSE Append(before, analyzeBucket(startTime, candles))

\* the list handed back in the order it was built
reverseOmitted(s) == s

reverse(s) == [i \in 1..Len(s) |-> s[Len(s) + 1 - i]]

\* the count taken over the rising intervals
countMatchesRising(results) == Len(SelectSeq(results, LAMBDA r : r.direction15m = "UP"))

countMatches(results) == Len(SelectSeq(results, LAMBDA r : r.isMatch))

\* the rate computed without the test for an empty result
matchRateOfUnguarded(matchCount, total) == [num |-> matchCount * 100, den |-> total]

\* matchRate is the fraction num / den
matchRateOf(matchCount, total) ==
    IF total = 0 THEN [num |-> 0, den |-> 1]
    ELSE [num |-> matchCount * 100, den |-> total]

analyzeData(klines, symbol) ==
    LET keys == {bucketStart(klines[i].openTime) : i \in 1..Len(klines)}
        results == analyzeBuckets(klines, sortKeys(keys))
        total == Len(results)
        matchCount == countMatches(results)
        mismatchCount == total - matchCount
    IN  [symbol |-> symbol,
         totalIntervals |-> total,
         matchCount |-> matchCount,
         mismatchCount |-> mismatchCount,
         matchRate |-> matchRateOf(matchCount, total),
         dataPoints |-> reverse(results)]

\* ------------------------------------- the analyzer of utils/analyzer.ts
\* The file utils/analyzer.ts holds analyzeData with the checkpoint taken at
\* the middle of minute 14; the rest of the function is the same.
priceAt14m30sOf(open14, close14) == (open14 + close14) \div 2

analyzeBucket30s(startTime, unsorted) ==
    LET candles == sortByOpenTime(unsorted)
        startCandle == candles[1]
        endCandle == candles[15]
        startPrice == parseFloat(startCandle.open)
        priceAt15m == parseFloat(endCandle.close)
        open14 == parseFloat(endCandle.open)
        close14 == parseFloat(endCandle.close)
        priceAt14m30s == priceAt14m30sOf(open14, close14)
        direction15m == getDirection(startPrice, priceAt15m)
        direction14m30s == getDirection(startPrice, priceAt14m30s)
    IN  [startTime |-> startTime,
         endTime |-> startTime + 15 * 60 * 1000,
         startPrice |-> startPrice,
         priceAt15m |-> priceAt15m,
         direction15m |-> direction15m,
         isMatch |-> (direction15m = direction14m30s),
         priceAt14m30s |-> priceAt14m30s,
         direction14m30s |-> direction14m30s]

RECURSIVE analyzeBuckets30s(_, _)
analyzeBuckets30s(klines, sortedKeys) ==
    IF sortedKeys = << >> THEN << >>
    ELSE LET startTime == Last(sortedKeys)
             candles == bucketOf(klines, startTime)
             before == analyzeBuckets30s(klines, SubSeq(sortedKeys, 1, Len(sortedKeys) - 1))
         IN  IF Len(candles) < 15 THEN before
             ELSE Append(before, analyzeBucket30s(startTime, candles))

analyzeData30s(klines, symbol) ==
    LET keys == {bucketStart(klines[i].openTime) : i \in 1..Len(klines)}
        results == analyzeBuckets30s(klines, sortKeys(keys))
        total == Len(results)
        matchCount == countMatches(results)
        mismatchCount == total - matchCount
    IN  [symbol |-> symbol,
         totalIntervals |-> total,
         matchCount |-> matchCount,
         mismatchCount |-> mismatchCount,
         matchRate |-> matchRateOf(matchCount, total),
         dataPoints |-> reverse(results)]

\* ------------------------------------------------------------- the state
VARIABLES
    selectedPair,      \* App state
    timeRange,
    stats,             \* << >> is null, <<s>> holds s
    loading,
    progress,
    error,             \* << >> is null, otherwise the message parts
    pc,                \* where the running handleFetch stands
    now,               \* locals of fetchHistoricalData
    startTime,
    currentStartTime,
    safetyCounter,
    allKlines,
    response,          \* << >>, or <<r>>: the response of the last request
    result,            \* how the call of fetchHistoricalData settled
    requests,          \* the requests issued by the running call
    progressCalls,     \* the values passed to the progress callback
    clock,             \* the environment: wall clock and source
    ticks,
    srcFirst,
    srcLive,
    srcEnd,
    srcHonoursStart,   \* FALSE: the source ignores startTime and serves
                       \* its oldest candles on every request
    calls              \* the overlapping calls of handleFetch in flight

vars == <<selectedPair, timeRange, stats, loading, progress, error, pc, now,
          startTime, currentStartTime, safetyCounter, allKlines, response,
          result, requests, progressCalls, clock, ticks, srcFirst, srcLive,
          srcEnd, srcHonoursStart, calls>>

appVars == <<selectedPair, timeRange, stats, loading, progress, error, calls>>

fetchVars == <<now, startTime, currentStartTime, safetyCounter, allKlines>>

envVars == <<clock, ticks, srcFirst, srcLive, srcEnd, srcHonoursStart>>

Pending == [kind |-> "pending", klines |-> << >>, name |-> "", message |-> << >>]

Resolved(klines) == [kind |-> "ok", klines |-> klines, name |-> "", message |-> << >>]

Rejected(name, message) == [kind |-> "error", klines |-> << >>, name |-> name, message |-> message]

\* the responses a request can get
HttpResponse(ok, status, statusText, isArray, items, json) ==
    [rejected |-> FALSE, ok |-> ok, status |-> status, statusText |-> statusText,
     isArray |-> isArray, items |-> items, json |-> json]

NetworkFailure ==
    [rejected |-> TRUE, ok |-> FALSE, status |-> "", statusText |-> "",
     isArray |-> FALSE, items |-> << >>, json |-> ""]

HoursOf(range) ==
    CASE range = "3d"  -> 72
      [] range = "7d"  -> 168
      [] range = "14d" -> 336
      [] range = "30d" -> 720
      [] range = "1y"  -> 8760
      [] OTHER         -> 24

Init ==
    /\ selectedPair = PAIRS[1]
    /\ timeRange = "24h"
    /\ stats = << >>
    /\ loading = FALSE
    /\ progress = 0
    /\ error = << >>
    /\ pc = "idle"
    /\ now = 0
    /\ startTime = 0
    /\ currentStartTime = 0
    /\ safetyCounter = 0
    /\ allKlines = << >>
    /\ response = << >>
    /\ result = Pending
    /\ requests = << >>
    /\ progressCalls = << >>
    /\ clock \in {T0, T0 + 30 * 1000}
    /\ ticks = 0
    /\ srcFirst \in {0, T0 - 50 * MINUTE}
    /\ srcLive \in BOOLEAN
    /\ srcEnd = T0 - 10 * MINUTE
    /\ srcHonoursStart = TRUE
    /\ calls = << >>

\* ------------------------------------------------- fetchHistoricalData
\* one wire array becomes one BinanceKline
parseKline(d) ==
    [openTime |-> d[1], open |-> d[2], high |-> d[3], low |-> d[4],
     close |-> d[5], volume |-> d[6], closeTime |-> d[7]]

parseKlines(data) == [i \in 1..Len(data) |-> parseKline(data[i])]

\* the cursor taken from the first candle of the page
nextStartTimeFromFirst(parsedKlines) == parsedKlines[1].closeTime + 1

\* the cursor taken from the last openTime
nextStartTimeFromOpenTime(parsedKlines) == Last(parsedKlines).openTime + 1

\* the start time of the next chunk
nextStartTime(parsedKlines) == Last(parsedKlines).closeTime + 1

\* the loop admitting one iteration more
loopConditionOffByOne(cursor, n, counter) == cursor < n /\ counter <= MAX_LOOPS

\* the condition of the while loop
loopCondition(cursor, n, counter) == cursor < n /\ counter < MAX_LOOPS

\* the two errors thrown inside the try block
transportError(r) == Rejected("Error", <<"Binance API error: ", r.status, " ", r.statusText>>)

applicationErrorAsTransport(r) == Rejected("Error", <<"Binance API error: ", r.json>>)

applicationError(r) == Rejected("Error", <<"Binance API Error: ", r.json>>)

networkError == Rejected("TypeError", <<"Failed to fetch">>)

\* the loop test; a passed test counts the iteration and issues the request
LoopTest ==
    /\ pc = "loop"
    /\ IF loopCondition(currentStartTime, now, safetyCounter)
       THEN /\ safetyCounter' = safetyCounter + 1
            /\ requests' = Append(requests, [startTime |-> currentStartTime, limit |-> LIMIT])
            /\ pc' = "fetching"
            /\ UNCHANGED result
       ELSE /\ result' = Resolved(allKlines)
            /\ pc' = "settled"
            /\ UNCHANGED <<safetyCounter, requests>>
    /\ UNCHANGED <<now, startTime, currentStartTime, allKlines, response, progressCalls>>
    /\ UNCHANGED appVars
    /\ UNCHANGED envVars

\* the source answers the request in flight
Respond(r) ==
    /\ pc = "fetching"
    /\ response' = <<r>>
    /\ pc' = "responded"
    /\ UNCHANGED <<result, requests, progressCalls>>
    /\ UNCHANGED fetchVars
    /\ UNCHANGED appVars
    /\ UNCHANGED envVars

\* the startTime the source acts on: the one of the request, or none
startTimeServed(request) == IF srcHonoursStart THEN request.startTime ELSE 0

RespondPage ==
    Respond(HttpResponse(TRUE, "200", "OK", TRUE,
                         PageFor(startTimeServed(Last(requests)), Last(requests).limit,
                                 srcFirst, clock, srcLive, srcEnd), ""))

RespondNotOk == Respond(HttpResponse(FALSE, "429", "Too Many Requests", FALSE, << >>, ""))

RespondObject ==
    Respond(HttpResponse(TRUE, "200", "OK", FALSE, << >>,
                         "{\"code\":-1121,\"msg\":\"Invalid symbol.\"}"))

RespondNetworkFailure == Respond(NetworkFailure)

\* the branches without the test for the empty page
responseOutcomeNoBreak(r) ==
    IF r.rejected THEN "rejected"
    ELSE IF ~r.ok THEN "not_ok"
    ELSE IF ~r.isArray \/ Len(r.items) = 0 THEN "not_array"
    ELSE "page"

\* which branch of the try block a response takes
responseOutcome(r) ==
    IF r.rejected THEN "rejected"
    ELSE IF ~r.ok THEN "not_ok"
    ELSE IF ~r.isArray THEN "not_array"
    ELSE IF Len(r.items) = 0 THEN "empty"
    ELSE "page"

\* how the call settles when the branch leaves the loop
settlement(outcome, r, klines) ==
    CASE outcome = "rejected"  -> networkError
      [] outcome = "not_ok"    -> transportError(r)
      [] outcome = "not_array" -> applicationError(r)
      [] outcome = "empty"     -> Resolved(klines)

\* the next iteration entered without the pause
pcAfterNoDelay(outcome) == IF outcome = "page" THEN "loop" ELSE "settled"

\* a failed request issued again from inside the loop body
pcAfterRetryInPlace(outcome) ==
    IF outcome = "page" THEN "delay"
    ELSE IF outcome = "not_ok" THEN "fetching"
    ELSE "settled"

\* a failed request tried again
pcAfterWithRetry(outcome) ==
    IF outcome = "page" THEN "delay"
    ELSE IF outcome = "not_ok" THEN "loop"
    ELSE "settled"

\* where control goes after the branch: a thrown error and the break leave
\* the loop, a page is followed by the pause
pcAfter(outcome) == IF outcome = "page" THEN "delay" ELSE "settled"

\* the body of the try block after the response has arrived
HandleResponse ==
    /\ pc = "responded"
    /\ LET r == response[1]
           outcome == responseOutcome(r)
       IN  /\ pc' = pcAfter(outcome)
           /\ IF outcome = "page"
              THEN /\ allKlines' = allKlines \o parseKlines(r.items)
                   /\ currentStartTime' = nextStartTime(parseKlines(r.items))
                   /\ UNCHANGED result
              ELSE /\ result' = settlement(outcome, r, allKlines)
                   /\ UNCHANGED <<allKlines, currentStartTime>>
    /\ UNCHANGED <<now, startTime, safetyCounter, response, requests, progressCalls>>
    /\ UNCHANGED appVars
    /\ UNCHANGED envVars

\* the 100 ms pause before the next iteration has elapsed
DelayElapsed ==
    /\ pc = "delay"
    /\ pc' = "loop"
    /\ UNCHANGED <<response, result, requests, progressCalls>>
    /\ UNCHANGED fetchVars
    /\ UNCHANGED appVars
    /\ UNCHANGED envVars

\* --------------------------------------------------------- handleFetch
\* the synchronous head of handleFetch and of fetchHistoricalData
handleFetchStart(range) ==
    /\ loading' = TRUE
    /\ progress' = 0
    /\ error' = << >>
    /\ stats' = << >>
    /\ allKlines' = << >>
    /\ now' = clock
    /\ startTime' = clock - HoursOf(range) * 60 * 60 * 1000
    /\ currentStartTime' = clock - HoursOf(range) * 60 * 60 * 1000
    /\ safetyCounter' = 0
    /\ response' = << >>
    /\ result' = Pending
    /\ requests' = << >>
    /\ progressCalls' = << >>
    /\ pc' = "loop"

\* the effect on mount and the Refresh button (enabled while not loading)
handleFetch ==
    /\ pc \in {"idle", "done"}
    /\ handleFetchStart(timeRange)
    /\ UNCHANGED <<selectedPair, timeRange, calls>>
    /\ UNCHANGED envVars

\* the user selects another pair or range once the running call is over;
\* the effect runs handleFetch (a selection made while a call is running is
\* the subject of the specification of overlapping calls below)
Select(pair, range) ==
    /\ pc = "done"
    /\ <<pair, range>> # <<selectedPair, timeRange>>
    /\ selectedPair' = pair
    /\ timeRange' = range
    /\ handleFetchStart(range)
    /\ UNCHANGED calls
    /\ UNCHANGED envVars

\* err.message || 'Failed to fetch data'
errorText(message) == IF message = << >> THEN <<"Failed to fetch data">> ELSE message

\* the rest of handleFetch if a failure still analysed the pages received
handleFetchSettlePartial ==
    /\ pc = "settled"
    /\ IF result.kind = "ok"
       THEN /\ stats' = <<analyzeData(result.klines, selectedPair)>>
            /\ UNCHANGED error
       ELSE /\ error' = errorText(result.message)
            /\ stats' = <<analyzeData(allKlines, selectedPair)>>
    /\ loading' = FALSE
    /\ pc' = "done"
    /\ UNCHANGED <<selectedPair, timeRange, progress, calls>>
    /\ UNCHANGED <<response, result, requests, progressCalls>>
    /\ UNCHANGED fetchVars
    /\ UNCHANGED envVars

\* the rest of handleFetch once fetchHistoricalData has settled; the pause
\* before analyzeData changes no state and is part of this step
handleFetchSettle ==
    /\ pc = "settled"
    /\ IF result.kind = "ok"
       THEN /\ stats' = <<analyzeData(result.klines, selectedPair)>>
            /\ UNCHANGED error
       ELSE /\ error' = errorText(result.message)
            /\ UNCHANGED stats
    /\ loading' = FALSE
    /\ pc' = "done"
    /\ UNCHANGED <<selectedPair, timeRange, progress, calls>>
    /\ UNCHANGED <<response, result, requests, progressCalls>>
    /\ UNCHANGED fetchVars
    /\ UNCHANGED envVars

\* ------------------------------------------------------ the environment
\* the wall clock reaches the next minute; a live source opens a candle
Tick ==
    /\ ticks < MaxTicks
    /\ ticks' = ticks + 1
    /\ clock' = FloorMinute(clock) + MINUTE
    /\ UNCHANGED <<srcFirst, srcLive, srcEnd, srcHonoursStart>>
    /\ UNCHANGED <<pc, response, result, requests, progressCalls>>
    /\ UNCHANGED fetchVars
    /\ UNCHANGED appVars

ModelPairs == {PAIRS[1], PAIRS[2]}

Next ==
    \/ handleFetch
    \/ \E pair \in ModelPairs, range \in ModelRanges : Select(pair, range)
    \/ LoopTest
    \/ RespondPage
    \/ RespondNotOk
    \/ RespondObject
    \/ RespondNetworkFailure
    \/ HandleResponse
    \/ DelayElapsed
    \/ handleFetchSettle
    \/ Tick

Spec == Init /\ [][Next]_vars

\* ------------------------------------------- any source, fair scheduling
\* One call of fetchHistoricalData, from its start to the moment its promise
\* settles, against a source that may ignore startTime, so that its pages
\* move the cursor backwards or leave it where it is.  Every request gets a
\* response, and the continuations of the call and the timer of the pause
\* run once they can.
InitAnySource ==
    /\ selectedPair = PAIRS[1]
    /\ timeRange = "24h"
    /\ stats = << >>
    /\ loading = FALSE
    /\ progress = 0
    /\ error = << >>
    /\ pc = "idle"
    /\ now = 0
    /\ startTime = 0
    /\ currentStartTime = 0
    /\ safetyCounter = 0
    /\ allKlines = << >>
    /\ response = << >>
    /\ result = Pending
    /\ requests = << >>
    /\ progressCalls = << >>
    /\ clock \in {T0, T0 + 30 * 1000}
    /\ ticks = 0
    /\ srcFirst \in {0, T0 - 50 * MINUTE}
    /\ srcLive \in BOOLEAN
    /\ srcEnd = T0 - 10 * MINUTE
    /\ srcHonoursStart \in BOOLEAN
    /\ calls = << >>

NextAnySource ==
    \/ handleFetch
    \/ LoopTest
    \/ RespondPage
    \/ RespondNotOk
    \/ RespondObject
    \/ RespondNetworkFailure
    \/ HandleResponse
    \/ DelayElapsed
    \/ Tick

SpecAnySource ==
    /\ InitAnySource
    /\ [][NextAnySource]_vars
    /\ WF_vars(LoopTest)
    /\ WF_vars(RespondPage \/ RespondNotOk \/ RespondObject \/ RespondNetworkFailure)
    /\ WF_vars(HandleResponse)
    /\ WF_vars(DelayElapsed)

\* ------------------------------------------- overlapping handleFetch
\* The App with several calls of handleFetch in flight.  The selectors stay
\* enabled while a call is running, and the effect runs handleFetch on every
\* change; only the Refresh button is disabled while loading.  A call of
\* fetchHistoricalData is taken as one step here: its promise settles with
\* the candles its loop collects from the source, or with one of its errors.
RECURSIVE fetchLoop(_, _, _, _)
fetchLoop(cursor, n, counter, klines) ==
    IF ~loopCondition(cursor, n, counter) THEN klines
    ELSE LET data == PageFor(startTimeServed([startTime |-> cursor, limit |-> LIMIT]),
                             LIMIT, srcFirst, clock, srcLive, srcEnd)
         IN  IF Len(data) = 0 THEN klines
             ELSE fetchLoop(nextStartTime(parseKlines(data)), n, counter + 1,
                            klines \o parseKlines(data))

\* the ways the promise of a call's fetchHistoricalData can settle
fetchOutcomes(call) ==
    {Resolved(fetchLoop(call.calledAt - call.hoursLookback * 60 * 60 * 1000,
                        call.calledAt, 0, << >>)),
     networkError,
     transportError(HttpResponse(FALSE, "429", "Too Many Requests", FALSE, << >>, "")),
     applicationError(HttpResponse(TRUE, "200", "OK", FALSE, << >>,
                                   "{\"code\":-1121,\"msg\":\"Invalid symbol.\"}"))}

\* handleFetch up to its await, in a render with the given pair and range
handleFetchBegin(pair, range) ==
    /\ Len(calls) < MaxCalls
    /\ loading' = TRUE
    /\ progress' = 0
    /\ error' = << >>
    /\ stats' = << >>
    /\ calls' = Append(calls, [symbol |-> pair, hoursLookback |-> HoursOf(range),
                               calledAt |-> clock])
    /\ UNCHANGED <<pc, response, result, requests, progressCalls>>
    /\ UNCHANGED fetchVars
    /\ UNCHANGED envVars

\* the effect on mount and the Refresh button, which is disabled while loading
handleFetchOnRefresh ==
    /\ ~loading
    /\ handleFetchBegin(selectedPair, timeRange)
    /\ UNCHANGED <<selectedPair, timeRange>>

\* the user selects another pair or range, whether a call is running or
\* not; the effect runs handleFetch in the new render
handleFetchOnSelect(pair, range) ==
    /\ <<pair, range>> # <<selectedPair, timeRange>>
    /\ selectedPair' = pair
    /\ timeRange' = range
    /\ handleFetchBegin(pair, range)

\* the rest of a call of handleFetch once its fetchHistoricalData settles
handleFetchEnd(i) ==
    /\ i \in 1..Len(calls)
    /\ \E outcome \in fetchOutcomes(calls[i]) :
          IF outcome.kind = "ok"
          THEN /\ stats' = <<analyzeData(outcome.klines, calls[i].symbol)>>
               /\ UNCHANGED error
          ELSE /\ error' = errorText(outcome.message)
               /\ UNCHANGED stats
    /\ loading' = FALSE
    /\ calls' = SubSeq(calls, 1, i - 1) \o SubSeq(calls, i + 1, Len(calls))
    /\ UNCHANGED <<selectedPair, timeRange, progress>>
    /\ UNCHANGED <<pc, response, result, requests, progressCalls>>
    /\ UNCHANGED fetchVars
    /\ UNCHANGED envVars

NextApp ==
    \/ handleFetchOnRefresh
    \/ \E pair \in ModelPairs, range \in ModelRanges : handleFetchOnSelect(pair, range)
    \/ \E i \in 1..MaxCalls : handleFetchEnd(i)

SpecApp == Init /\ [][NextApp]_vars

\* ------------------------------------------------- the analyzer alone
\* analyzeData applied to candle lists that no fetch need have produced:
\* two adjacent buckets, complete, short, with a gap or with duplicates,
\* in ascending or descending order.
Kline(m, o, c) ==
    [openTime |-> m, open |-> o, high |-> "120", low |-> "99.50",
     close |-> c, volume |-> "1", closeTime |-> m + MINUTE - 1]

\* the minutes of a bucket that a shape holds, in input order
ShapeMinutes(shape) ==
    CASE shape = "none"    -> << >>
      [] shape = "one"     -> <<0>>
      [] shape = "short14" -> [i \in 1..14 |-> i - 1]
      [] shape = "full"    -> [i \in 1..15 |-> i - 1]
      [] shape = "dup0"    -> <<0>> \o [i \in 1..15 |-> i - 1]
      [] shape = "dup14"   -> [i \in 1..15 |-> i - 1] \o <<14>>
      [] shape = "gap13"   -> [i \in 1..13 |-> i - 1] \o <<14, 14>>

Shapes == {"none", "one", "short14", "full", "dup0", "dup14", "gap13"}

\* the candles of bucket b: minute 0 opens at sOpen, minute 14 runs from
\* o14 to c14, a repeated minute is quoted at 101 the second time
BucketCandles(b, shape, sOpen, o14, c14) ==
    LET mins == ShapeMinutes(shape)
        repeated(i) == \E j \in 1..(i - 1) : mins[j] = mins[i]
    IN  [i \in 1..Len(mins) |->
            LET m == b * BUCKET + mins[i] * MINUTE
            IN  IF repeated(i) THEN Kline(m, "101", "101")
                ELSE IF mins[i] = 0 THEN Kline(m, sOpen, "101")
                ELSE IF mins[i] = 14 THEN Kline(m, o14, c14)
                ELSE Kline(m, "101", "101")]

AnalyzerInput(shape1, shape2, sOpen, o14, c14, descending) ==
    LET asc == BucketCandles(0, shape1, sOpen, o14, c14)
                \o BucketCandles(1, shape2, sOpen, c14, o14)
    IN  IF descending THEN reverse(asc) ELSE asc

AnalyzerInputs ==
    {AnalyzerInput(s1, s2, so, o, c, d) :
        s1 \in Shapes, s2 \in {"none", "one", "short14", "full"},
        so \in {"100", "100.00"}, o \in {"99.50", "100", "110"},
        c \in {"99.50", "100", "120"}, d \in BOOLEAN}

InitAnalyzer ==
    /\ selectedPair = PAIRS[1]
    /\ timeRange = "24h"
    /\ stats = << >>
    /\ loading = FALSE
    /\ progress = 0
    /\ error = << >>
    /\ pc = "idle"
    /\ now = 0
    /\ startTime = 0
    /\ currentStartTime = 0
    /\ safetyCounter = 0
    /\ allKlines \in AnalyzerInputs
    /\ response = << >>
    /\ result = Pending
    /\ requests = << >>
    /\ progressCalls = << >>
    /\ clock = T0
    /\ ticks = 0
    /\ srcFirst = 0
    /\ srcLive = TRUE
    /\ srcEnd = T0
    /\ srcHonoursStart = TRUE
    /\ calls = << >>

\* the caller's array read back in reverse order after the call
klinesAfterAnalyzeReversed(klines) == reverse(klines)

\* the caller's array sorted in place by the call
klinesAfterAnalyzeSorted(klines) == sortByOpenTime(klines)

\* the caller's array after analyzeData: the candles are pushed to the
\* function's own bucket lists, and only those lists are sorted
klinesAfterAnalyze(klines) == klines

\* analyzeData(klines, symbol) on the candle list held in allKlines
analyze(from, to) ==
    /\ pc = from
    /\ stats' = <<analyzeData(allKlines, selectedPair)>>
    /\ allKlines' = klinesAfterAnalyze(allKlines)
    /\ pc' = to
    /\ UNCHANGED <<selectedPair, timeRange, loading, progress, error, calls>>
    /\ UNCHANGED <<response, result, requests, progressCalls>>
    /\ UNCHANGED <<now, startTime, currentStartTime, safetyCounter>>
    /\ UNCHANGED envVars

\* the same call on the analyzeData of utils/analyzer.ts
analyze30s(from, to) ==
    /\ pc = from
    /\ stats' = <<analyzeData30s(allKlines, selectedPair)>>
    /\ allKlines' = klinesAfterAnalyze(allKlines)
    /\ pc' = to
    /\ UNCHANGED <<selectedPair, timeRange, loading, progress, error, calls>>
    /\ UNCHANGED <<response, result, requests, progressCalls>>
    /\ UNCHANGED <<now, startTime, currentStartTime, safetyCounter>>
    /\ UNCHANGED envVars

\* the first run on an input, and a second run on the same array
analyzeCall == analyze("idle", "done")

analyzeAgain == analyze("done", "again")

analyzeCall30s == analyze30s("idle", "done30s")

analyzeAgain30s == analyze30s("done30s", "again30s")

NextAnalyzer ==
    \/ analyzeCall
    \/ analyzeAgain
    \/ analyzeCall30s
    \/ analyzeAgain30s

SpecAnalyzer == InitAnalyzer /\ [][NextAnalyzer]_vars

\* ------------------------------------------------------------ properties
\* the last response is a non-empty page that the call has taken in
PageTaken ==
    /\ response # << >>
    /\ ~response[1].rejected
    /\ response[1].ok
    /\ response[1].isArray
    /\ Len(response[1].items) > 0
    /\ pc \in {"delay", "loop", "fetching", "settled", "done"}

\* the last response is an empty page
EmptyPageReceived ==
    /\ response # << >>
    /\ ~response[1].rejected
    /\ response[1].ok
    /\ response[1].isArray
    /\ Len(response[1].items) = 0

\* the candles of the source whose openTime lies in [startTime, now)
WindowMinutes ==
    LET from == Max(srcFirst, CeilMinute(startTime))
        last == SrcLast(now, srcLive, srcEnd)
        upto == IF FloorMinute(now) = now THEN Min(last, now - MINUTE) ELSE last
    IN  IF upto < from THEN {}
        ELSE {from + i * MINUTE : i \in 0..((upto - from) \div MINUTE)}

Ascending(klines) ==
    \A i \in 1..(Len(klines) - 1) : klines[i].openTime < klines[i + 1].openTime

\* C1: after every non-empty page the cursor, and the startTime of the next
\* request, is the closeTime of the last candle of that page plus 1; it is
\* neither the last openTime plus 1 nor the previous cursor plus a fixed
\* increment of 1000 minutes.
C1_CursorIsLastCloseTimePlusOne ==
    PageTaken =>
        LET lastWire == Last(response[1].items)
            asked == requests[safetyCounter].startTime
        IN  /\ pc \in {"delay", "loop"} => currentStartTime = lastWire[7] + 1
            /\ pc = "fetching" => Last(requests).startTime = lastWire[7] + 1
            /\ pc \in {"delay", "loop"} => currentStartTime # lastWire[1] + 1
            /\ pc \in {"delay", "loop"} => currentStartTime # asked + 1000 * MINUTE

C1_Witness ==
    /\ PageTaken
    /\ pc = "fetching"
    /\ Len(requests) = 3
    /\ Last(requests).startTime = Last(response[1].items)[7] + 1

\* C2: a successful return holds, in ascending openTime order, every candle
\* of the source whose openTime is in [now - lookback, now).
C2_AllWindowCandlesReturned ==
    result.kind = "ok" =>
        /\ Ascending(result.klines)
        /\ \A m \in WindowMinutes :
              \E i \in 1..Len(result.klines) : result.klines[i].openTime = m

\* C3: every candle of a successful result has its openTime in
\* [now - lookback, now).
C3_ResultWithinWindow ==
    result.kind = "ok" =>
        \A i \in 1..Len(result.klines) :
            /\ result.klines[i].openTime >= startTime
            /\ result.klines[i].openTime < now

\* C4: an empty page ends the call at once and successfully: no further
\* request is issued and the candles accumulated so far are returned, also
\* with the cursor below now and iterations left.
C4_EmptyPageEndsSuccessfully ==
    (EmptyPageReceived /\ pc # "responded")
    => /\ pc \in {"settled", "done"}
       /\ result.kind = "ok"
       /\ result.klines = allKlines
       /\ Len(requests) = safetyCounter

C4_Witness ==
    /\ EmptyPageReceived
    /\ pc = "done"
    /\ result.kind = "ok"
    /\ Len(result.klines) > 0
    /\ currentStartTime < now
    /\ safetyCounter < MAX_LOOPS
    /\ error = << >>

\* C5: a non-success response makes the call fail at once with the transport
\* error; the request is not retried and no later request is issued.
C5_NotOkFailsAtOnce ==
    (/\ response # << >>
     /\ ~response[1].rejected
     /\ ~response[1].ok
     /\ pc # "responded")
    => /\ pc \in {"settled", "done"}
       /\ result.kind = "error"
       /\ result.message = <<"Binance API error: ", response[1].status, " ", response[1].statusText>>
       /\ Len(requests) = safetyCounter

C5_Witness ==
    /\ response # << >>
    /\ ~response[1].rejected
    /\ ~response[1].ok
    /\ pc = "done"
    /\ result.kind = "error"
    /\ Len(requests) = 3
    /\ error = <<"Binance API error: ", "429", " ", "Too Many Requests">>

\* C6: a success response whose payload is not a list makes the call fail
\* with an error built from the payload, and the message differs from the
\* message of every transport failure.
C6_NotArrayFailsDistinctly ==
    (/\ response # << >>
     /\ ~response[1].rejected
     /\ response[1].ok
     /\ ~response[1].isArray
     /\ pc # "responded")
    => /\ pc \in {"settled", "done"}
       /\ result.kind = "error"
       /\ result.message = <<"Binance API Error: ", response[1].json>>
       /\ result.message[1] # "Binance API error: "

C6_Witness ==
    /\ response # << >>
    /\ response[1].ok
    /\ ~response[1].isArray
    /\ pc = "done"
    /\ result.kind = "error"
    /\ error = <<"Binance API Error: ", "{\"code\":-1121,\"msg\":\"Invalid symbol.\"}">>

\* C7: a failure at any page, also after successful pages, hands the caller
\* the failure only: no candle is returned and the stats stay null.
C7_FailureReturnsNothing ==
    result.kind = "error" =>
        /\ result.klines = << >>
        /\ stats = << >>
        /\ pc = "done" => error # << >>

C7_Witness ==
    /\ result.kind = "error"
    /\ pc = "done"
    /\ Len(allKlines) > 0
    /\ safetyCounter > 1
    /\ stats = << >>
    /\ error # << >>

\* C8: a call issues at most MAX_LOOPS requests, and a loop stopped by the
\* exhausted budget with the cursor below now returns the accumulated
\* candles without an error.
C8_BudgetBoundsRequests ==
    /\ Len(requests) <= MAX_LOOPS
    /\ safetyCounter = Len(requests)
    /\ (/\ pc \in {"settled", "done"}
        /\ PageTaken
        /\ safetyCounter = MAX_LOOPS
        /\ currentStartTime < now)
       => /\ result.kind = "ok"
          /\ result.klines = allKlines
          /\ pc = "done" => error = << >>

C8_Witness ==
    /\ pc = "done"
    /\ PageTaken
    /\ Len(requests) = MAX_LOOPS
    /\ currentStartTime < now
    /\ result.kind = "ok"
    /\ Len(result.klines) > 0
    /\ stats # << >>

\* C9: the progress callback is called after each non-empty page, with an
\* integer in [0, 100].
C9_ProgressCalledPerPage ==
    /\ (PageTaken /\ pc = "delay") => Len(progressCalls) = safetyCounter
    /\ \A i \in 1..Len(progressCalls) : progressCalls[i] \in 0..100

\* C10: the counts of analyzeData agree with its dataPoints:
\* matchCount + mismatchCount = totalIntervals, totalIntervals is the number
\* of records and matchCount the number of records with isMatch.
C10_CountsAgree ==
    stats # << >> =>
        LET st == stats[1]
            matching == {i \in 1..Len(st.dataPoints) : st.dataPoints[i].isMatch}
        IN  /\ st.matchCount + st.mismatchCount = st.totalIntervals
            /\ st.totalIntervals = Len(st.dataPoints)
            /\ st.matchCount = Cardinality(matching)

C10_Witness ==
    /\ stats # << >>
    /\ stats[1].totalIntervals = 2
    /\ stats[1].matchCount = 1
    /\ stats[1].mismatchCount = 1
    /\ ~stats[1].dataPoints[1].isMatch

\* C11: matchRate is 0 whenever totalIntervals is 0, also for a non-empty
\* input without a complete bucket; otherwise it is
\* matchCount / totalIntervals * 100, a value in [0, 100].  The divisor is
\* never 0.
C11_MatchRate ==
    stats # << >> =>
        LET st == stats[1]
            n == Len(st.dataPoints)
            matching == {i \in 1..n : st.dataPoints[i].isMatch}
        IN  /\ st.matchRate.den # 0
            /\ n = 0 => st.matchRate.num = 0
            /\ n > 0 => st.matchRate.num * n = Cardinality(matching) * 100 * st.matchRate.den
            /\ 0 <= st.matchRate.num
            /\ st.matchRate.num <= 100 * st.matchRate.den

C11_Witness ==
    /\ stats # << >>
    /\ Len(allKlines) = 28
    /\ stats[1].totalIntervals = 0
    /\ stats[1].matchRate.num = 0

\* the number of input candles that fall into the 15-minute bucket at b
CandlesIn(b) ==
    Cardinality({i \in 1..Len(allKlines) : allKlines[i].openTime \div BUCKET = b \div BUCKET})

\* the aligned bucket starts the input touches
InputBuckets == {(allKlines[i].openTime \div BUCKET) * BUCKET : i \in 1..Len(allKlines)}

\* C12: analyzeData produces exactly one record for each 15-minute-aligned
\* bucket that holds at least 15 input candles, and none for a bucket that
\* holds fewer; a short bucket is skipped and the analysis still completes.
C12_OneRecordPerFullBucket ==
    stats # << >> =>
        LET dp == stats[1].dataPoints
        IN  /\ \A b \in InputBuckets :
                Cardinality({i \in 1..Len(dp) : dp[i].startTime = b})
                    = IF CandlesIn(b) >= 15 THEN 1 ELSE 0
            /\ \A i \in 1..Len(dp) : dp[i].startTime \in InputBuckets
            /\ error = << >>

C12_Witness ==
    /\ stats # << >>
    /\ CandlesIn(0) = 14
    /\ CandlesIn(BUCKET) = 15
    /\ Len(stats[1].dataPoints) = 1
    /\ stats[1].dataPoints[1].startTime = BUCKET

\* the checkpoint of a record of either copy of analyzeData
checkpointPrice(r) ==
    IF "priceAt14m55s" \in DOMAIN r THEN r.priceAt14m55s ELSE r.priceAt14m30s

checkpointDirection(r) ==
    IF "direction14m55s" \in DOMAIN r THEN r.direction14m55s ELSE r.direction14m30s

DataPoints == IF stats = << >> THEN << >> ELSE stats[1].dataPoints

\* C13: in every record each direction is UP iff the compared price is
\* strictly greater than startPrice, DOWN iff strictly less and FLAT iff
\* equal, for the end direction and for the checkpoint direction.
C13_DirectionsStrict ==
    \A i \in 1..Len(DataPoints) :
        LET r == DataPoints[i]
        IN  /\ r.direction15m = "UP" <=> r.priceAt15m > r.startPrice
            /\ r.direction15m = "DOWN" <=> r.priceAt15m < r.startPrice
            /\ r.direction15m = "FLAT" <=> r.priceAt15m = r.startPrice
            /\ checkpointDirection(r) = "UP" <=> checkpointPrice(r) > r.startPrice
            /\ checkpointDirection(r) = "DOWN" <=> checkpointPrice(r) < r.startPrice
            /\ checkpointDirection(r) = "FLAT" <=> checkpointPrice(r) = r.startPrice

C13_Witness ==
    /\ Len(DataPoints) = 2
    /\ DataPoints[1].direction15m = "UP"
    /\ DataPoints[2].direction15m = "FLAT"
    /\ DataPoints[2].priceAt15m = DataPoints[2].startPrice
    /\ checkpointDirection(DataPoints[2]) = "UP"

\* C14: in every record isMatch is true iff the checkpoint direction equals
\* the end direction; FLAT with FLAT matches, FLAT with UP or DOWN does not.
C14_MatchIsDirectionEquality ==
    \A i \in 1..Len(DataPoints) :
        LET r == DataPoints[i]
        IN  /\ r.isMatch <=> checkpointDirection(r) = r.direction15m
            /\ (checkpointDirection(r) = "FLAT" /\ r.direction15m = "FLAT") => r.isMatch
            /\ (checkpointDirection(r) = "FLAT" /\ r.direction15m # "FLAT") => ~r.isMatch
            /\ (checkpointDirection(r) # "FLAT" /\ r.direction15m = "FLAT") => ~r.isMatch

C14_Witness ==
    /\ Len(DataPoints) = 2
    /\ checkpointDirection(DataPoints[1]) = "FLAT"
    /\ DataPoints[1].direction15m = "FLAT"
    /\ DataPoints[1].isMatch
    /\ "priceAt14m55s" \in DOMAIN DataPoints[1]

\* the candle a record takes as minute 14: position 14 of its sorted bucket
UsedAsMinute14(r) == sortByOpenTime(bucketOf(allKlines, r.startTime))[15]

\* C15: for every complete bucket the checkpoint price is
\* open14 + (close14 - open14) * 55/60 of the candle used as minute 14
\* (119.1667 for open 110 and close 120).
C15_CheckpointAt55Of60 ==
    \A i \in 1..Len(DataPoints) :
        LET r == DataPoints[i]
            open14 == parseFloat(UsedAsMinute14(r).open)
            close14 == parseFloat(UsedAsMinute14(r).close)
        IN  checkpointPrice(r) * 60 = open14 * 60 + (close14 - open14) * 55

\* C16: dataPoints is ordered newest first: startTime strictly decreases
\* along the list, whatever the order of the input candles.
C16_NewestFirst ==
    \A i \in 1..(Len(DataPoints) - 1) :
        DataPoints[i].startTime > DataPoints[i + 1].startTime

C16_Witness ==
    /\ Len(DataPoints) = 2
    /\ DataPoints[1].startTime = BUCKET
    /\ DataPoints[2].startTime = 0
    /\ Len(allKlines) = 31
    /\ allKlines[1].openTime > allKlines[2].openTime

\* C17: the number of records is at most floor(candle_count / 15).
C17_AtMostOnePerFifteen ==
    stats # << >> => Len(DataPoints) <= Len(allKlines) \div 15

C17_Witness ==
    /\ Len(allKlines) = 29
    /\ CandlesIn(0) = 14
    /\ CandlesIn(BUCKET) = 15
    /\ Len(DataPoints) = 1

\* the newest bucket of the input holds fewer than 15 candles
NewestBucket == CHOOSE b \in InputBuckets : \A c \in InputBuckets : c <= b

TrailingIncomplete == allKlines # << >> /\ CandlesIn(NewestBucket) < 15

\* C18 as stated: with trailing candles that do not fill a bucket the number
\* of records is strictly less than floor(candle_count / 15).
C18_StrictlyLessWithTrailing ==
    (stats # << >> /\ TrailingIncomplete)
        => Len(DataPoints) < Len(allKlines) \div 15

\* C18 as amended: the trailing candles yield no record, and the records
\* number at most floor((candle_count - trailing) / 15).
C18_TrailingYieldsNoRecord ==
    (stats # << >> /\ TrailingIncomplete)
        => /\ \A i \in 1..Len(DataPoints) : DataPoints[i].startTime # NewestBucket
           /\ Len(DataPoints) <= (Len(allKlines) - CandlesIn(NewestBucket)) \div 15

C18_Witness ==
    /\ Len(allKlines) = 16
    /\ CandlesIn(0) = 15
    /\ CandlesIn(BUCKET) = 1
    /\ Len(DataPoints) = 1
    /\ Len(DataPoints) = Len(allKlines) \div 15
    /\ DataPoints[1].startTime = 0

CandleAt(t) == \E i \in 1..Len(allKlines) : allKlines[i].openTime = t

\* C20: for every record, startPrice is the open of the candle opening at the
\* record's startTime, the end price is the close of the candle opening at
\* startTime + 14 minutes, and the record's bucket holds a candle for each of
\* the minutes 0 through 14, duplicates included.
C20_Minute0AndMinute14 ==
    \A n \in 1..Len(DataPoints) :
        LET r == DataPoints[n]
        IN  /\ \E i \in 1..Len(allKlines) :
                  /\ allKlines[i].openTime = r.startTime
                  /\ parseFloat(allKlines[i].open) = r.startPrice
            /\ \E i \in 1..Len(allKlines) :
                  /\ allKlines[i].openTime = r.startTime + 14 * MINUTE
                  /\ parseFloat(allKlines[i].close) = r.priceAt15m
            /\ \A k \in 0..14 : CandleAt(r.startTime + k * MINUTE)

\* the candles of a record's bucket after the sort by openTime
SortedBucket(r) == sortByOpenTime(bucketOf(allKlines, r.startTime))

\* C21: for a bucket of more than 15 candles the record is made of the
\* candles at sorted positions 0 and 14 alone: startPrice is the open of
\* position 0, the end price the close of position 14, the checkpoint price
\* comes from the open and close of position 14, and the record is the one
\* the first 15 sorted candles give.
C21_OnlyPositions0And14 ==
    \A n \in 1..Len(DataPoints) :
        LET r == DataPoints[n]
            sorted == SortedBucket(r)
            first15 == SubSeq(sorted, 1, 15)
            open14 == parseFloat(sorted[15].open)
            close14 == parseFloat(sorted[15].close)
        IN  Len(sorted) > 15 =>
              /\ r.startPrice = parseFloat(sorted[1].open)
              /\ r.priceAt15m = parseFloat(sorted[15].close)
              /\ checkpointPrice(r) =
                    IF "priceAt14m55s" \in DOMAIN r
                    THEN open14 + ((close14 - open14) * 55) \div 60
                    ELSE (open14 + close14) \div 2
              /\ r \in {analyzeBucket(r.startTime, first15),
                        analyzeBucket30s(r.startTime, first15)}

C21_Witness ==
    /\ Len(DataPoints) >= 1
    /\ LET r == DataPoints[Len(DataPoints)]
       IN  /\ r.startTime = 0
           /\ Len(SortedBucket(r)) = 16
           /\ SortedBucket(r)[16].openTime = SortedBucket(r)[15].openTime
           /\ SortedBucket(r)[16].close # SortedBucket(r)[15].close
           /\ r.priceAt15m = parseFloat(SortedBucket(r)[15].close)
           /\ "priceAt14m55s" \in DOMAIN r

\* the candles of the input have pairwise distinct openTime values
DistinctOpenTimes ==
    \A i, j \in 1..Len(allKlines) :
        i # j => allKlines[i].openTime # allKlines[j].openTime

\* rearrangements of a candle list: the reversal, every rotation, every
\* exchange of two neighbours, the odd positions followed by the even ones,
\* and the reversals of these
rotate(s, k) == SubSeq(s, k + 1, Len(s)) \o SubSeq(s, 1, k)

swapNeighbours(s, k) ==
    [i \in 1..Len(s) |-> IF i = k THEN s[k + 1] ELSE IF i = k + 1 THEN s[k] ELSE s[i]]

oddsThenEvens(s) ==
    LET half == (Len(s) + 1) \div 2
    IN  [i \in 1..Len(s) |-> IF i <= half THEN s[2 * i - 1] ELSE s[2 * (i - half)]]

Rearrangements(s) ==
    LET once == {rotate(s, k) : k \in 0..(Len(s) - 1)}
                  \cup {swapNeighbours(s, k) : k \in 1..(Len(s) - 1)}
                  \cup {oddsThenEvens(s)}
    IN  once \cup {reverse(p) : p \in once}

\* analyzeData of the copy that the run in progress has called
analyzeDataCalled(klines) ==
    IF pc \in {"done30s", "again30s"} THEN analyzeData30s(klines, selectedPair)
    ELSE analyzeData(klines, selectedPair)

\* C22: when the candles of the input have pairwise distinct openTime values,
\* analyzeData gives the same AnalysisStats for every rearrangement of the
\* input.
C22_OrderOfInputIrrelevant ==
    (stats # << >> /\ DistinctOpenTimes)
        => \A p \in Rearrangements(allKlines) : analyzeDataCalled(p) = stats[1]

C22_Witness ==
    /\ pc = "done"
    /\ DistinctOpenTimes
    /\ Len(allKlines) = 30
    /\ Len(DataPoints) = 2
    /\ allKlines[1].openTime > allKlines[2].openTime
    /\ \E p \in Rearrangements(allKlines) :
          /\ p # allKlines
          /\ p # reverse(allKlines)
          /\ analyzeDataCalled(p) = stats[1]

\* a step that runs analyzeData
AnalyzeStep ==
    /\ pc \in {"idle", "done", "done30s"}
    /\ pc' \in {"done", "again", "done30s", "again30s"}

expectedCandles(hours) == hours * 60

requestsNeeded(hours) == (expectedCandles(hours) + LIMIT - 1) \div LIMIT

\* C24: the iteration budget is at least ceil(expected_candles / 1000) for
\* the lookback of every call the orchestrator makes.
C24_BudgetCoversLookback ==
    pc \in {"loop", "fetching", "responded", "delay", "settled"}
        => MAX_LOOPS >= requestsNeeded((now - startTime) \div HOUR)

\* a call of fetchHistoricalData is running
CallRunning == pc \in {"loop", "fetching", "responded", "delay"}

\* the last page received left the cursor where it was or moved it back
CursorNotAdvanced ==
    /\ PageTaken
    /\ requests # << >>
    /\ currentStartTime <= Last(requests).startTime

\* C25: every call of fetchHistoricalData eventually finishes, whatever
\* pages the source returns, if every request gets a response.
C25_CallFinishes == CallRunning ~> pc = "settled"

C25_Witness ==
    /\ pc = "settled"
    /\ result.kind = "ok"
    /\ safetyCounter = MAX_LOOPS
    /\ CursorNotAdvanced
    /\ currentStartTime < now

\* a step that issues a request after the first one of the call
IssuesNextRequest == requests # << >> /\ Len(requests') = Len(requests) + 1

\* the response of the last request is a page that has been parsed into the
\* accumulated candles
LastPageParsed ==
    /\ response # << >>
    /\ ~response[1].rejected
    /\ response[1].ok
    /\ response[1].isArray
    /\ Len(response[1].items) > 0
    /\ Len(allKlines) >= Len(response[1].items)
    /\ Last(allKlines).openTime = Last(response[1].items)[1]

\* C26: within one call at most one request is in flight: a response comes
\* only to the request in flight, the pause starts only once the response
\* has been received and parsed, the loop is re-entered only when the pause
\* has elapsed, and request k+1 is issued only from there.
C26_OneRequestAtATime ==
    [][/\ IssuesNextRequest => (pc = "loop" /\ pc' = "fetching" /\ LastPageParsed)
       /\ (response' # response /\ response' # << >>)
              => (pc = "fetching" /\ pc' = "responded" /\ requests' = requests)
       /\ (pc' = "delay" /\ pc # "delay") => (pc = "responded" /\ LastPageParsed')
       /\ (pc' = "loop" /\ pc # "loop" /\ requests' # << >>) => pc = "delay"
       /\ (pc = "fetching" /\ pc' # "fetching") => pc' = "responded"]_vars

C26_Witness ==
    /\ pc = "fetching"
    /\ Len(requests) = 3
    /\ LastPageParsed
    /\ Last(requests).startTime = Last(allKlines).closeTime + 1

\* a page in wire format is ascending in openTime, starts at or after the
\* requested startTime and each candle closes after it opens
WellFormedPage(items, requested) ==
    /\ \A i \in 1..(Len(items) - 1) : items[i][1] < items[i + 1][1]
    /\ \A i \in 1..Len(items) : items[i][1] >= requested /\ items[i][7] > items[i][1]

\* the page received last, if any, is well-formed for the request it answers
LastPageWellFormed ==
    (/\ response # << >>
     /\ ~response[1].rejected
     /\ response[1].ok
     /\ response[1].isArray
     /\ requests # << >>)
        => WellFormedPage(response[1].items,
                          IF pc = "fetching" /\ Len(requests) > 1
                          THEN requests[Len(requests) - 1].startTime
                          ELSE Last(requests).startTime)

\* every page of the call was well-formed: the source honours startTime (it
\* serves ascending candles that close after they open either way), as the
\* page received last shows
PagesWellFormed == srcHonoursStart /\ LastPageWellFormed

\* C27: when the pages are well-formed the cursor strictly increases from
\* one iteration to the next, and the accumulated candles are strictly
\* ascending in openTime, so that no candle appears twice.
C27_CursorAndResultAscend ==
    PagesWellFormed =>
        /\ \A i \in 1..(Len(requests) - 1) :
              requests[i].startTime < requests[i + 1].startTime
        /\ (requests # << >> /\ pc \in {"delay", "loop"})
              => Last(requests).startTime < currentStartTime
        /\ \A i \in 1..(Len(allKlines) - 1) :
              allKlines[i].openTime < allKlines[i + 1].openTime

C27_Witness ==
    /\ PagesWellFormed
    /\ pc = "delay"
    /\ Len(requests) = 3
    /\ Len(allKlines) = 3 * ServerMaxPage
    /\ Last(requests).startTime < currentStartTime
    /\ requests[2].startTime < requests[3].startTime
    /\ allKlines[ServerMaxPage].openTime < allKlines[ServerMaxPage + 1].openTime

\* C28: once every call of handleFetch has finished, the stats shown are
\* those of the call started last: stats.symbol is the selected pair.
C28_LatestFetchWins ==
    (calls = << >> /\ stats # << >>) => stats[1].symbol = selectedPair

\* C29: loading = false implies that no call of handleFetch is in flight.
C29_LoadingWhileInFlight == ~loading => calls = << >>

\* C30: the checkpoint price of a record lies between the open and the close
\* of the candle used as minute 14, bounds included; so when both are
\* strictly above startPrice, or both strictly below it, the checkpoint
\* direction equals the end direction and isMatch is true.
C30_CheckpointWithinMinute14 ==
    \A n \in 1..Len(DataPoints) :
        LET r == DataPoints[n]
            open14 == parseFloat(UsedAsMinute14(r).open)
            close14 == parseFloat(UsedAsMinute14(r).close)
        IN  /\ Min(open14, close14) <= checkpointPrice(r)
            /\ checkpointPrice(r) <= Max(open14, close14)
            /\ (\/ (open14 > r.startPrice /\ close14 > r.startPrice)
                \/ (open14 < r.startPrice /\ close14 < r.startPrice))
                  => (checkpointDirection(r) = r.direction15m /\ r.isMatch)

C30_Witness ==
    /\ pc = "done"
    /\ Len(DataPoints) = 2
    /\ LET rising == DataPoints[2]
           falling == DataPoints[1]
       IN  /\ parseFloat(UsedAsMinute14(rising).open) > rising.startPrice
           /\ parseFloat(UsedAsMinute14(rising).close) > parseFloat(UsedAsMinute14(rising).open)
           /\ checkpointPrice(rising) > parseFloat(UsedAsMinute14(rising).open)
           /\ checkpointPrice(rising) < parseFloat(UsedAsMinute14(rising).close)
           /\ rising.direction15m = "UP"
           /\ rising.isMatch
           /\ parseFloat(UsedAsMinute14(falling).close) > falling.startPrice
           /\ parseFloat(UsedAsMinute14(falling).open) > parseFloat(UsedAsMinute14(falling).close)
           /\ checkpointPrice(falling) < parseFloat(UsedAsMinute14(falling).open)
           /\ checkpointPrice(falling) > parseFloat(UsedAsMinute14(falling).close)
           /\ falling.direction15m = "UP"
           /\ falling.isMatch

====
